---- MODULE Spec2Model ----
(***************************************************************************)
(* Conversion worker of al-tool (scripts/conversion_worker.py): a pool of  *)
(* worker processes polls the table "bases" of one SQLite store, claims    *)
(* the oldest PENDING row, resolves the uploaded file, runs the converter  *)
(* and writes the terminal status back.                                    *)
(*                                                                         *)
(* Each worker is one operating-system process running main_loop; its      *)
(* module globals (running) and locals (conn, backoff, ...) are per        *)
(* worker.  The store is shared.  A SQLite write transaction is modelled   *)
(* by the write lock (txOwner) and the row image the owner has written     *)
(* but not yet committed (tx).  The stats counters and the log lines are   *)
(* left out: the program never reads them.                                 *)
(***************************************************************************)
EXTENDS Integers, Sequences, FiniteSets, TLC

\* ------------------------------------------------------------------ bounds
NumWorkers == 2

NumJobs == 2

\* The longest run of consecutive connect_db failures of one worker.
MaxFails == 5

\* The sheets of the workbook the converter reads, and the most rows a sheet
\* has.
NumSheets == 2

MaxRows == 3

\* The most cells a row has when the loop bodies of the two JSONL functions
\* are compared.
MaxCols == 2

Workers == 1..NumWorkers

Jobs == 1..NumJobs

\* ------------------------------------------------------- program constants
POLL_INTERVAL == 5

BACKOFF_MAX_SECONDS == 30

Min(a, b) == IF a <= b THEN a ELSE b

\* sleep_for = min(backoff, BACKOFF_MAX_SECONDS)
SleepFor(backoff) == Min(backoff, BACKOFF_MAX_SECONDS)

\* A faulty variant: the backoff grows by POLL_INTERVAL instead of doubling.
NextBackoff_Linear(backoff) == Min(backoff + POLL_INTERVAL, BACKOFF_MAX_SECONDS)

\* backoff = min(backoff * 2, BACKOFF_MAX_SECONDS)
NextBackoff(backoff) == Min(backoff * 2, BACKOFF_MAX_SECONDS)

\* ------------------------------------------------------------------- paths
\* A path string is [abs, parts]: whether it starts with "/", and its
\* components.  The empty string (and NULL) is the relative path without
\* components.  An absolute normalised path is the sequence of its components.
Rel(parts) == [abs |-> FALSE, parts |-> parts]

Abs(parts) == [abs |-> TRUE, parts |-> parts]

EmptyRef == Rel(<<>>)

\* os.path.join(base, p) for an absolute base: an absolute p replaces base.
Join(base, p) == IF p.abs THEN p.parts ELSE base \o p.parts

RECURSIVE NormParts(_, _)
NormParts(parts, acc) ==
    IF parts = <<>> THEN acc
    ELSE LET h == Head(parts)
             t == Tail(parts)
         IN  IF h = "." THEN NormParts(t, acc)
             ELSE IF h = ".."
                  THEN NormParts(t, IF acc = <<>> THEN acc
                                    ELSE SubSeq(acc, 1, Len(acc) - 1))
                  ELSE NormParts(t, Append(acc, h))

\* os.path.abspath of an absolute path: "." dropped, ".." resolved.
Abspath(parts) == NormParts(parts, <<>>)

\* A component without its leading dots (the names of the model that start
\* with a dot).
StripDots(name) ==
    CASE name = ".cache" -> "cache"
      [] OTHER -> name

IsDots(name) == name \in {".", ".."}

RECURSIVE DropDots(_)
DropDots(parts) ==
    IF parts = <<>> THEN <<>>
    ELSE IF IsDots(Head(parts)) THEN DropDots(Tail(parts))
    ELSE <<StripDots(Head(parts))>> \o Tail(parts)

\* arquivo_caminho.lstrip('./'): every leading "." and "/" character goes,
\* so the result is relative, loses leading "." and ".." components and the
\* leading dots of its first name.
Cleaned(p) == Rel(DropDots(p.parts))

\* os.path.basename
Basename(p) == IF p.parts = <<>> THEN EmptyRef ELSE Rel(<<p.parts[Len(p.parts)]>>)

CWD == <<"srv">>

SCRIPT_DIR == <<"repo", "scripts">>

REPO_ROOT == Abspath(Join(SCRIPT_DIR, Rel(<<"..">>)))

DATA_DIR == Abspath(Join(REPO_ROOT, Rel(<<"storage">>)))

INGESTS_DIR == Join(DATA_DIR, Rel(<<"ingests">>))

UPLOAD_DIR_ENV == Join(DATA_DIR, Rel(<<"uploads">>))

\* A faulty variant: add appends without looking at the list.
Add_NoDedupe(candidates, candidate) == Append(candidates, Abspath(candidate))

\* add(candidate): append the normalised path unless it is already listed.
Add(candidates, candidate) ==
    LET norm == Abspath(candidate)
    IN  IF \E i \in DOMAIN candidates : candidates[i] = norm
        THEN candidates
        ELSE Append(candidates, norm)

RECURSIVE AddAll(_, _)
AddAll(candidates, raw) ==
    IF raw = <<>> THEN candidates
    ELSE AddAll(Add(candidates, Head(raw)), Tail(raw))

\* The candidate list of resolve_uploaded_path, in the order it is built.
Candidates(ref) ==
    IF ref = EmptyRef THEN <<>>
    ELSE LET cleaned == Cleaned(ref)
             current ==
                 IF ref.abs THEN <<Join(CWD, ref)>>
                 ELSE << Join(CWD, ref), Join(CWD, cleaned),
                         Join(SCRIPT_DIR, ref), Join(SCRIPT_DIR, cleaned),
                         Join(REPO_ROOT, ref), Join(REPO_ROOT, cleaned),
                         Join(REPO_ROOT \o <<"apps", "api">>, ref),
                         Join(REPO_ROOT \o <<"apps", "api">>, cleaned) >>
             legacy == << Join(<<"home", "app">>, ref),
                          Join(<<"home", "app", "apps", "api">>, ref),
                          Join(<<"home", "app", "apps">>, ref) >>
             storage == << Join(DATA_DIR, ref), Join(DATA_DIR, cleaned),
                           Join(DATA_DIR \o <<"uploads">>, Basename(cleaned)),
                           Join(UPLOAD_DIR_ENV, Basename(cleaned)) >>
         IN  AddAll(<<>>, current \o legacy \o storage)

\* What the disk may hold when a path is resolved (os.path.exists): the
\* files are put there and removed by other programs.
Disks ==
    { {},
      { <<"repo", "storage", "uploads", "a.xlsb">> },
      { <<"srv", "uploads", "a.xlsb">>, <<"repo", "storage", "uploads", "a.xlsb">> } }

NoPath == <<>>

RECURSIVE FirstExisting(_, _)
FirstExisting(candidates, disk) ==
    IF candidates = <<>> THEN NoPath
    ELSE IF Head(candidates) \in disk THEN Head(candidates)
    ELSE FirstExisting(Tail(candidates), disk)

\* resolve_uploaded_path returns (abs_input, candidates).
ResolveUploadedPath(ref, disk) ==
    [path |-> FirstExisting(Candidates(ref), disk), candidates |-> Candidates(ref)]

\* arquivo_caminho as the upstream system recorded it on job j.
RefOf(j) ==
    IF j % 2 = 1 THEN Rel(<<"uploads", "a.xlsb">>)
    ELSE Rel(<<".", "uploads", "a.xlsb">>)

\* resolve_uploaded_path on the references of the model, tabulated.
Resolved ==
    [ref \in { RefOf(j) : j \in Jobs } |->
        [disk \in Disks |-> ResolveUploadedPath(ref, disk)]]

\* A faulty variant: one output file name for every job.
AbsOutput_Fixed(base_id) == Join(INGESTS_DIR, Rel(<<"out">>))

\* abs_output = os.path.join(INGESTS_DIR, f"{base_id}.jsonl"); the last
\* component stands for "<base_id>.jsonl".
AbsOutput(base_id) == Join(INGESTS_DIR, Rel(<<ToString(base_id)>>))

\* ------------------------------------------------------------------- store
\* A row of the table bases.  NULL columns: started/finished 0, out NoPath,
\* err NoMsg.
NoMsg == [text |-> "", rc |-> 0, diag |-> "", paths |-> <<>>]

NewRow(ref) ==
    [status |-> "PENDING", started |-> 0, finished |-> 0,
     out |-> NoPath, err |-> NoMsg, ref |-> ref]

NoTx == [job |-> 0, row |-> NewRow(EmptyRef)]

NoRes == [rc |-> 0, out |-> "", err |-> ""]

\* What run_conversion can return: (rc, stdout, stderr).
ConvResults ==
    { [rc |-> 0, out |-> "rows", err |-> ""],
      [rc |-> 1, out |-> "rows", err |-> "trace"] }

VARIABLES
    bases,      \* the committed rows of the table, by id
    txOwner,    \* the worker holding the store's write lock, 0 when free
    tx,         \* per worker: the row it has written and not yet committed
    wk,         \* per worker: the state of its main_loop.  pc is the place
                \* in the code; sleepFor the time slept on the way to the
                \* loop test (0: none); claimed what claim_pending returned
                \* in this iteration (-1 not called, 0 None, else the id);
                \* exc the text of the exception caught in this iteration;
                \* fails (observation only) counts the connect_db failures
                \* since the last successful connect_db, and faulted tells
                \* that the iteration before them ended in the loop-level
                \* except clause; prior (observation only) tells, during
                \* an iteration, that the iteration right before it ended
                \* in the loop-level except clause;
                \* raced (observation only) is 1 when its BEGIN IMMEDIATE
                \* had to wait for another worker's claim while exactly
                \* one job was PENDING, and claim_pending then returned None
    hist,       \* per job (observation only): successful claims, committed
                \* terminal writes, and how the conversion ended ("none",
                \* "zero", "nonzero", "raised", or "again" once run twice)
    rs,         \* one call of resolve_uploaded_path taken alone: its
                \* argument, the files that exist, and what it returned
    nv,         \* one call of _normalize_value_for_json taken alone: its
                \* argument and what it returned
    eng         \* one run of the converter script (xlsb_to_xlsx.py main):
                \* its arguments, the source file, the place in the code
                \* (pc, conv), the output file (created; lines: what was
                \* written to it, of which the first flushed have left the
                \* write buffer), the row held, the counters, and, for
                \* observation, the converters run, the rows read and the
                \* exceptions raised

vars == <<bases, txOwner, tx, wk, hist, rs, nv, eng>>

\* The store and the workers.
wvars == <<bases, txOwner, tx, wk, hist>>

\* The function calls and the converter run that are studied alone.
calls == <<rs, nv, eng>>

\* No call of resolve_uploaded_path under study.
NoCall == [pc |-> "none", ref |-> EmptyRef, disk |-> {}, path |-> NoPath,
           candidates |-> <<>>]

\* No call of _normalize_value_for_json under study.
NoNorm == [pc |-> "none"]

\* No run of the converter script under study.
NoRun == [pc |-> "none"]

InitWorker ==
    [pc |-> "loop", running |-> TRUE, conn |-> "none",
     backoff |-> POLL_INTERVAL, sleepFor |-> 0, cur |-> 0,
     absInput |-> NoPath, site |-> "", res |-> NoRes, exc |-> "",
     claimed |-> -1, raced |-> 0, fails |-> 0, faulted |-> FALSE,
     prior |-> FALSE]

\* The store as the upstream system filled it, and the workers at the start
\* of main_loop.
WorkersInit ==
    /\ bases = [j \in Jobs |-> NewRow(RefOf(j))]
    /\ txOwner = 0
    /\ tx = [w \in Workers |-> NoTx]
    /\ wk = [w \in Workers |-> InitWorker]
    /\ hist = [j \in Jobs |-> [claims |-> 0, writes |-> 0, conv |-> "none"]]

Init ==
    /\ WorkersInit
    /\ rs = NoCall
    /\ nv = NoNorm
    /\ eng = NoRun

\* The row of job j as worker w's connection sees it.
Visible(w, j) == IF tx[w].job = j THEN tx[w].row ELSE bases[j]

SetMin(S) == CHOOSE x \in S : \A y \in S : x <= y

\* A faulty variant: the SELECT also takes the jobs that are RUNNING.
PendingIds_Unfinished(w) ==
    { j \in Jobs : Visible(w, j).status \in {"PENDING", "RUNNING"} }

\* SELECT id, arquivo_caminho FROM bases WHERE conversion_status = 'PENDING'
\* ORDER BY id LIMIT 1: the ids that qualify, and the one returned.
PendingIds(w) == { j \in Jobs : Visible(w, j).status = "PENDING" }

\* A faulty variant: ORDER BY id DESC.
SelectRow_Newest(w) == CHOOSE x \in PendingIds(w) : \A y \in PendingIds(w) : x >= y

SelectRow(w) == SetMin(PendingIds(w))

\* UPDATE ... WHERE id = ? AND conversion_status = 'PENDING': the rowcount.
ClaimRowcount(w, j) == IF Visible(w, j).status = "PENDING" THEN 1 ELSE 0

\* A faulty variant: the UPDATE of the claim sets the start time and not the status.
ClaimedRow_StatusKept(row) == [row EXCEPT !.started = 1]

ClaimedRow(row) == [row EXCEPT !.status = "RUNNING", !.started = 1]

\* A faulty variant: update_status leaves conversion_status out of its UPDATE.
UpdatedRow_NoStatus(row, status, jsonl_rel, error_msg) ==
    [row EXCEPT !.out = IF jsonl_rel # NoPath THEN jsonl_rel ELSE @,
                !.finished = 1,
                !.err = IF error_msg # NoMsg THEN error_msg ELSE @]

\* update_status's UPDATE: status and conversion_finished_at always, the
\* other two columns only when the argument is not None.
UpdatedRow(row, status, jsonl_rel, error_msg) ==
    [row EXCEPT !.status = status,
                !.out = IF jsonl_rel # NoPath THEN jsonl_rel ELSE @,
                !.finished = 1,
                !.err = IF error_msg # NoMsg THEN error_msg ELSE @]

\* The arguments of the update_status call at each call site of main_loop.
StatusArgs(w) ==
    LET s == wk[w].site
        r == wk[w].res
    IN  CASE s = "status_notfound" ->
               [status |-> "FAILED", jsonl_rel |-> NoPath,
                error_msg |-> [NoMsg EXCEPT !.text = "uploaded file not found"]]
          [] s = "status_ready" ->
               [status |-> "READY", jsonl_rel |-> AbsOutput(wk[w].cur),
                error_msg |-> NoMsg]
          [] s = "status_failed" ->
               [status |-> "FAILED", jsonl_rel |-> NoPath,
                error_msg |-> [NoMsg EXCEPT !.text = "converter exit", !.rc = r.rc,
                                            !.diag = IF r.err # "" THEN r.err ELSE r.out]]
          [] OTHER ->
               [status |-> "FAILED", jsonl_rel |-> NoPath,
                error_msg |-> [NoMsg EXCEPT !.text = wk[w].exc]]

\* ----------------------------------------------------------- worker helpers
Set(w, r) == wk' = [wk EXCEPT ![w] = r]

\* The locals of an iteration, dead once the iteration ends.
Cleared(r) ==
    [r EXCEPT !.cur = 0, !.absInput = NoPath, !.site = "", !.res = NoRes, !.exc = "",
              !.claimed = -1, !.raced = 0, !.prior = FALSE]

Release(w) ==
    /\ tx' = [tx EXCEPT ![w] = NoTx]
    /\ txOwner' = IF txOwner = w THEN 0 ELSE txOwner

\* A faulty variant: an empty poll is treated as a failure, it sleeps the
\* backoff and doubles it.
NoJob_Escalates(w, exc) ==
    /\ Release(w)
    /\ Set(w, [Cleared(wk[w]) EXCEPT !.claimed = 0, !.raced = wk[w].raced,
                                     !.exc = exc, !.conn = "closed",
                                     !.sleepFor = SleepFor(wk[w].backoff),
                                     !.backoff = NextBackoff(wk[w].backoff),
                                     !.pc = "loop"])

\* claim_pending returned None (exc: the exception it swallowed, "" when it
\* found no row): main_loop closes the connection and sleeps POLL_INTERVAL
\* (the backoff is left alone).
NoJob(w, exc) ==
    /\ Release(w)
    /\ Set(w, [Cleared(wk[w]) EXCEPT !.claimed = 0, !.raced = wk[w].raced,
                                     !.exc = exc, !.conn = "closed",
                                     !.sleepFor = POLL_INTERVAL, !.pc = "loop"])

\* A faulty variant: main_loop without the try around the handling of a job.
HandlerOf_NoOuterTry(site) ==
    CASE site = "connect" -> "connect_except"
      [] site \in {"select", "update", "commit"} -> "claim_except"
      [] site \in {"convert", "status_ready", "status_failed"} -> "inner_except"
      [] OTHER -> "escape"

\* The except clause an exception raised at a site of the code reaches.
HandlerOf(site) ==
    CASE site = "connect" -> "connect_except"
      [] site \in {"select", "update", "commit"} -> "claim_except"
      [] site \in {"convert", "status_ready", "status_failed"} -> "inner_except"
      [] site \in {"begin", "resolve", "status_notfound", "status_handler"} ->
           "outer_except"
      [] OTHER -> "escape"

\* An exception of kind exc (the text str(exc) gives) raised at site.
Raise(w, site, exc) ==
    LET h == HandlerOf(site)
        r == wk[w]
        sleep == SleepFor(r.backoff)
        next == NextBackoff(r.backoff)
    IN  CASE h = "connect_except" ->
               /\ Set(w, [r EXCEPT !.conn = "none", !.sleepFor = sleep,
                                   !.backoff = next, !.fails = @ + 1,
                                   !.pc = "loop"])
               /\ UNCHANGED <<tx, txOwner>>
          [] h = "claim_except" -> NoJob(w, exc)
          [] h = "inner_except" ->
               /\ Set(w, [r EXCEPT !.site = "status_handler", !.exc = exc,
                                   !.pc = "wexec"])
               /\ UNCHANGED <<tx, txOwner>>
          [] h = "outer_except" ->
               /\ Release(w)
               /\ Set(w, [Cleared(r) EXCEPT !.conn = "closed", !.sleepFor = sleep,
                                            !.backoff = next, !.faulted = TRUE,
                                            !.pc = "loop"])
          [] OTHER ->
               /\ Set(w, [r EXCEPT !.pc = "crashed"])
               /\ UNCHANGED <<tx, txOwner>>

\* ------------------------------------------------------------------ actions
\* handle_signal: running = False.
Signal(w) ==
    /\ wk[w].running
    /\ wk[w].pc # "done"
    /\ Set(w, [wk[w] EXCEPT !.running = FALSE])
    /\ UNCHANGED <<bases, txOwner, tx, hist>>
    /\ UNCHANGED calls

\* while running: false, main_loop returns.
Exit(w) ==
    /\ wk[w].pc = "loop"
    /\ ~wk[w].running
    /\ Set(w, [Cleared(wk[w]) EXCEPT !.conn = "none", !.backoff = POLL_INTERVAL,
                                     !.sleepFor = 0, !.fails = 0, !.faulted = FALSE,
                                     !.pc = "done"])
    /\ UNCHANGED <<bases, txOwner, tx, hist>>
    /\ UNCHANGED calls

\* A faulty variant: the loop test does not read the running flag.
ConnectOk_NoFlag(w) ==
    /\ wk[w].pc = "loop"
    /\ Set(w, [wk[w] EXCEPT !.conn = "open", !.backoff = POLL_INTERVAL,
                             !.sleepFor = 0, !.claimed = -1, !.raced = 0,
                             !.exc = "", !.fails = 0, !.faulted = FALSE,
                             !.prior = wk[w].faulted /\ wk[w].fails = 0,
                             !.pc = "begin"])
    /\ UNCHANGED <<bases, txOwner, tx, hist>>
    /\ UNCHANGED calls

\* conn = connect_db(); backoff = POLL_INTERVAL
ConnectOk(w) ==
    /\ wk[w].pc = "loop"
    /\ wk[w].running
    /\ Set(w, [wk[w] EXCEPT !.conn = "open", !.backoff = POLL_INTERVAL,
                             !.sleepFor = 0, !.claimed = -1, !.raced = 0,
                             !.exc = "", !.fails = 0, !.faulted = FALSE,
                             !.prior = wk[w].faulted /\ wk[w].fails = 0,
                             !.pc = "begin"])
    /\ UNCHANGED <<bases, txOwner, tx, hist>>
    /\ UNCHANGED calls

\* connect_db raises.
ConnectFail(w) ==
    /\ wk[w].pc = "loop"
    /\ wk[w].running
    /\ wk[w].fails < MaxFails
    /\ Raise(w, "connect", "store")
    /\ UNCHANGED <<bases, hist>>
    /\ UNCHANGED calls

\* A faulty variant: a plain BEGIN, which takes no write lock.
BeginOk_NoLock(w) ==
    /\ wk[w].pc = "begin"
    /\ Set(w, [wk[w] EXCEPT !.pc = "select"])
    /\ UNCHANGED <<bases, txOwner, tx, hist>>
    /\ UNCHANGED calls

\* claim_pending: BEGIN IMMEDIATE takes the write lock once it is free.
BeginOk(w) ==
    /\ wk[w].pc = "begin"
    /\ txOwner = 0
    /\ txOwner' = w
    /\ wk' = [x \in Workers |->
                IF x = w THEN [wk[x] EXCEPT !.pc = "select"]
                ELSE IF wk[x].pc = "begin" /\ Cardinality(PendingIds(w)) = 1
                     THEN [wk[x] EXCEPT !.raced = 1]
                     ELSE wk[x]]
    /\ UNCHANGED <<bases, tx, hist>>
    /\ UNCHANGED calls

\* BEGIN IMMEDIATE raises (busy timeout, store unreachable).
BeginFail(w) ==
    /\ wk[w].pc = "begin"
    /\ Raise(w, "begin", "store")
    /\ UNCHANGED <<bases, hist>>
    /\ UNCHANGED calls

\* claim_pending: the SELECT; no row: commit, return None.
SelectOk(w) ==
    /\ wk[w].pc = "select"
    /\ IF PendingIds(w) = {}
       THEN NoJob(w, "")
       ELSE /\ Set(w, [wk[w] EXCEPT !.cur = SelectRow(w), !.pc = "update"])
            /\ UNCHANGED <<tx, txOwner>>
    /\ UNCHANGED <<bases, hist>>
    /\ UNCHANGED calls

SelectFail(w) ==
    /\ wk[w].pc = "select"
    /\ Raise(w, "select", "store")
    /\ UNCHANGED <<bases, hist>>
    /\ UNCHANGED calls

\* claim_pending: the conditional UPDATE; rowcount 0: commit, return None.
UpdateOk(w) ==
    /\ wk[w].pc = "update"
    /\ IF ClaimRowcount(w, wk[w].cur) = 0
       THEN NoJob(w, "")
       ELSE /\ tx' = [tx EXCEPT ![w] = [job |-> wk[w].cur,
                                        row |-> ClaimedRow(Visible(w, wk[w].cur))]]
            /\ Set(w, [wk[w] EXCEPT !.pc = "commit"])
            /\ UNCHANGED txOwner
    /\ UNCHANGED <<bases, hist>>
    /\ UNCHANGED calls

UpdateFail(w) ==
    /\ wk[w].pc = "update"
    /\ Raise(w, "update", "store")
    /\ UNCHANGED <<bases, hist>>
    /\ UNCHANGED calls

\* A faulty variant: the commit of the claim leaves the transaction open.
CommitOk_NoRelease(w) ==
    LET j == wk[w].cur
    IN  /\ wk[w].pc = "commit"
        /\ bases' = [bases EXCEPT ![j] = tx[w].row]
        /\ Set(w, [wk[w] EXCEPT !.claimed = j, !.raced = 0, !.pc = "resolve"])
        /\ hist' = [hist EXCEPT ![j].claims = @ + 1]
        /\ UNCHANGED <<tx, txOwner>>
        /\ UNCHANGED calls

\* claim_pending: conn.commit(); return (base_id, arquivo_caminho).
CommitOk(w) ==
    LET j == wk[w].cur
    IN  /\ wk[w].pc = "commit"
        /\ bases' = [bases EXCEPT ![j] = tx[w].row]
        /\ Release(w)
        /\ Set(w, [wk[w] EXCEPT !.claimed = j, !.raced = 0, !.pc = "resolve"])
        /\ hist' = [hist EXCEPT ![j].claims = @ + 1]
        /\ UNCHANGED calls

\* A faulty variant: the except clause of claim_pending commits what the
\* transaction wrote instead of rolling it back.
CommitFail_Applied(w) ==
    /\ wk[w].pc = "commit"
    /\ bases' = [bases EXCEPT ![wk[w].cur] = tx[w].row]
    /\ NoJob(w, "store")
    /\ UNCHANGED hist
    /\ UNCHANGED calls

CommitFail(w) ==
    /\ wk[w].pc = "commit"
    /\ Raise(w, "commit", "store")
    /\ UNCHANGED <<bases, hist>>
    /\ UNCHANGED calls

\* abs_input, candidates = resolve_uploaded_path(arquivo_caminho)
Resolve(w) ==
    /\ wk[w].pc = "resolve"
    /\ \E disk \in Disks :
          LET r == Resolved[bases[wk[w].cur].ref][disk]
          IN  IF r.path = NoPath
              THEN Set(w, [wk[w] EXCEPT !.site = "status_notfound", !.pc = "wexec"])
              ELSE Set(w, [wk[w] EXCEPT !.absInput = r.path, !.pc = "convert"])
    /\ UNCHANGED <<bases, txOwner, tx, hist>>
    /\ UNCHANGED calls

\* resolve_uploaded_path raises (os.getcwd() of a removed directory).
ResolveFail(w) ==
    /\ wk[w].pc = "resolve"
    /\ Raise(w, "resolve", "os")
    /\ UNCHANGED <<bases, hist>>
    /\ UNCHANGED calls

\* rc, out, err = run_conversion(abs_input, abs_output)
ConvertReturns(w) ==
    LET j == wk[w].cur
    IN  /\ wk[w].pc = "convert"
        /\ \E res \in ConvResults :
              /\ Set(w, [wk[w] EXCEPT
                           !.res = res,
                           !.site = IF res.rc = 0 THEN "status_ready" ELSE "status_failed",
                           !.pc = "wexec"])
              /\ hist' = [hist EXCEPT ![j].conv = IF @ # "none" THEN "again"
                                                   ELSE IF res.rc = 0 THEN "zero"
                                                   ELSE "nonzero"]
        /\ UNCHANGED <<bases, txOwner, tx>>
        /\ UNCHANGED calls

\* run_conversion raises (the converter cannot be started).
ConvertRaises(w) ==
    LET j == wk[w].cur
    IN  /\ wk[w].pc = "convert"
        /\ Raise(w, "convert", "converter")
        /\ hist' = [hist EXCEPT ![j].conv = IF @ # "none" THEN "again" ELSE "raised"]
        /\ UNCHANGED bases
        /\ UNCHANGED calls

\* update_status: cur.execute(sql, params), which takes the write lock.
WriteExecOk(w) ==
    LET j == wk[w].cur
        a == StatusArgs(w)
    IN  /\ wk[w].pc = "wexec"
        /\ txOwner \in {0, w}
        /\ txOwner' = w
        /\ tx' = [tx EXCEPT ![w] = [job |-> j,
                                    row |-> UpdatedRow(Visible(w, j), a.status,
                                                       a.jsonl_rel, a.error_msg)]]
        /\ Set(w, [wk[w] EXCEPT !.pc = "wcommit"])
        /\ UNCHANGED <<bases, hist>>
        /\ UNCHANGED calls

WriteExecFail(w) ==
    /\ wk[w].pc = "wexec"
    /\ Raise(w, wk[w].site, "store")
    /\ UNCHANGED <<bases, hist>>
    /\ UNCHANGED calls

\* update_status: conn.commit(); then main_loop closes the connection and
\* starts the next iteration.
WriteCommitOk(w) ==
    LET j == wk[w].cur
    IN  /\ wk[w].pc = "wcommit"
        /\ bases' = [bases EXCEPT ![j] = tx[w].row]
        /\ Release(w)
        /\ Set(w, [Cleared(wk[w]) EXCEPT !.conn = "closed", !.sleepFor = 0,
                                         !.pc = "loop"])
        /\ hist' = [hist EXCEPT ![j].writes = @ + 1]
        /\ UNCHANGED calls

WriteCommitFail(w) ==
    /\ wk[w].pc = "wcommit"
    /\ Raise(w, wk[w].site, "store")
    /\ UNCHANGED <<bases, hist>>
    /\ UNCHANGED calls

\* ----------------------------------------------------------- specifications
Next ==
    \E w \in Workers :
        \/ Signal(w) \/ Exit(w)
        \/ ConnectOk(w) \/ ConnectFail(w)
        \/ BeginOk(w) \/ BeginFail(w)
        \/ SelectOk(w) \/ SelectFail(w)
        \/ UpdateOk(w) \/ UpdateFail(w)
        \/ CommitOk(w) \/ CommitFail(w)
        \/ Resolve(w) \/ ResolveFail(w)
        \/ ConvertReturns(w) \/ ConvertRaises(w)
        \/ WriteExecOk(w) \/ WriteExecFail(w)
        \/ WriteCommitOk(w) \/ WriteCommitFail(w)

Spec == Init /\ [][Next]_vars

\* The same workers when no store operation fails and no signal arrives.
NextNoFault ==
    \E w \in Workers :
        \/ ConnectOk(w) \/ BeginOk(w) \/ SelectOk(w) \/ UpdateOk(w) \/ CommitOk(w)
        \/ Resolve(w) \/ ConvertReturns(w) \/ ConvertRaises(w)
        \/ WriteExecOk(w) \/ WriteCommitOk(w)

NoFaultSpec == Init /\ [][NextNoFault]_vars

\* The steps of a worker that wait for nothing.
Proceed(w) ==
    \/ ConnectOk(w) \/ SelectOk(w) \/ UpdateOk(w) \/ CommitOk(w)
    \/ Resolve(w) \/ ConvertReturns(w) \/ ConvertRaises(w) \/ WriteCommitOk(w)

\* Every process keeps running (weak fairness of its steps).  A statement
\* that waits for the write lock retries until busy_timeout expires; with no
\* store fault the wait never expires, so the lock is obtained: strong
\* fairness of the two steps that take the lock.
FairSpec ==
    /\ NoFaultSpec
    /\ \A w \in Workers :
          /\ WF_vars(Proceed(w))
          /\ SF_vars(BeginOk(w))
          /\ SF_vars(WriteExecOk(w))

\* ------------------------------------------- resolve_uploaded_path alone
\* The values of arquivo_caminho the function is called with: relative with
\* and without a leading "./" or "../", a hidden directory, a bare file
\* name, absolute paths, and the empty string.
Refs ==
    { Rel(<<"uploads", "a.xlsb">>),
      Rel(<<".", "uploads", "a.xlsb">>),
      Rel(<<"..", "storage", "uploads", "a.xlsb">>),
      Rel(<<".cache", "a.xlsb">>),
      Rel(<<"a.xlsb">>),
      Abs(<<"srv", "uploads", "a.xlsb">>),
      Abs(<<"home", "app", "a.xlsb">>),
      EmptyRef }

\* The files that may exist when the function is called.
Files ==
    { <<"srv", "uploads", "a.xlsb">>,
      <<"repo", "storage", "uploads", "a.xlsb">>,
      <<"home", "app", "uploads", "a.xlsb">>,
      <<"repo", "storage", "a.xlsb">> }

ResolverInit ==
    /\ WorkersInit
    /\ rs \in { [NoCall EXCEPT !.pc = "call", !.ref = ref, !.disk = disk] :
                  ref \in Refs, disk \in SUBSET Files }
    /\ nv = NoNorm
    /\ eng = NoRun

\* abs_input, candidates = resolve_uploaded_path(arquivo_caminho)
ResolverCall ==
    /\ rs.pc = "call"
    /\ rs' = [rs EXCEPT !.pc = "ret",
                         !.path = ResolveUploadedPath(rs.ref, rs.disk).path,
                         !.candidates = ResolveUploadedPath(rs.ref, rs.disk).candidates]
    /\ UNCHANGED <<wvars, nv, eng>>

ResolverSpec == ResolverInit /\ [][ResolverCall]_vars

\* ------------------------------------ xlsb_to_xlsx.py: cell values and text
\* Text is a sequence of characters.
DigitChars == <<"0", "1", "2", "3", "4", "5", "6", "7", "8", "9">>

RECURSIVE Digits(_)
Digits(n) ==
    IF n < 10 THEN <<DigitChars[n + 1]>>
    ELSE Digits(n \div 10) \o <<DigitChars[(n % 10) + 1]>>

Zeros(k) == [i \in 1..k |-> "0"]

\* n in decimal, zero-padded to width characters.
Pad(n, width) ==
    LET d == Digits(n)
    IN  IF Len(d) >= width THEN d ELSE Zeros(width - Len(d)) \o d

IsDigit(c) == \E i \in DOMAIN DigitChars : DigitChars[i] = c

DigitVal(c) == (CHOOSE i \in DOMAIN DigitChars : DigitChars[i] = c) - 1

RECURSIVE NatOf(_, _)
NatOf(digs, acc) ==
    IF digs = <<>> THEN acc ELSE NatOf(Tail(digs), acc * 10 + DigitVal(Head(digs)))

\* The first position of character c in text, 0 when it has none.
IndexOf(text, c) ==
    IF \E i \in DOMAIN text : text[i] = c
    THEN CHOOSE i \in DOMAIN text : text[i] = c /\ \A k \in 1..(i - 1) : text[k] # c
    ELSE 0

Signed(neg, text) == IF neg THEN <<"-">> \o text ELSE text

\* A number is [neg, coef, exp]: (-1)^neg * coef * 10^exp.  For a Decimal
\* these are its sign, digits and exponent; for a float, the shortest digits
\* that identify it (coef not a multiple of 10); for an int, exp is 0.
Num(neg, coef, exp) == [neg |-> neg, coef |-> coef, exp |-> exp]

NoNum == Num(FALSE, 0, 0)

NoDt == <<0, 0, 0, 0, 0, 0>>

\* A Python value: its class (kind) and, by class, a truth value (b), a
\* number (num), a calendar value <<y, m, d, H, M, S>> (dt) or text (s).
Py(kind, b, num, dt, text) == [kind |-> kind, b |-> b, num |-> num, dt |-> dt, s |-> text]

PyNone == Py("NoneType", FALSE, NoNum, NoDt, <<>>)

PyBool(b) == Py("bool", b, NoNum, NoDt, <<>>)

PyInt(neg, n) == Py("int", FALSE, Num(neg, n, 0), NoDt, <<>>)

PyFloat(neg, coef, exp) == Py("float", FALSE, Num(neg, coef, exp), NoDt, <<>>)

PyDecimal(neg, coef, exp) == Py("Decimal", FALSE, Num(neg, coef, exp), NoDt, <<>>)

PyDatetime(dt) == Py("datetime", FALSE, NoNum, dt, <<>>)

PyDate(y, m, d) == Py("date", FALSE, NoNum, <<y, m, d, 0, 0, 0>>, <<>>)

PyTime(H, M, S) == Py("time", FALSE, NoNum, <<0, 0, 0, H, M, S>>, <<>>)

PyStr(text) == Py("str", FALSE, NoNum, NoDt, text)

\* A list of strings, shown by its text.
PyList(text) == Py("list", FALSE, NoNum, NoDt, text)

\* isinstance(v, cls): bool is a subclass of int, datetime of date.
IsInstance(v, cls) ==
    \/ v.kind = cls
    \/ v.kind = "bool" /\ cls = "int"
    \/ v.kind = "datetime" /\ cls = "date"

\* repr of a float: the shortest digits, in exponent form when the decimal
\* point falls more than 16 places right or more than 3 places left of them.
FloatRepr(n) ==
    LET digs == Digits(n.coef)
        decpt == Len(digs) + n.exp
        e == decpt - 1
        fixed ==
            IF n.exp >= 0 THEN digs \o Zeros(n.exp) \o <<".", "0">>
            ELSE IF decpt > 0
                 THEN SubSeq(digs, 1, decpt) \o <<".">> \o SubSeq(digs, decpt + 1, Len(digs))
                 ELSE <<"0", ".">> \o Zeros(-decpt) \o digs
        sci ==
            <<Head(digs)>>
            \o (IF Len(digs) > 1 THEN <<".">> \o Tail(digs) ELSE <<>>)
            \o <<"e", IF e < 0 THEN "-" ELSE "+">>
            \o Pad(IF e < 0 THEN -e ELSE e, 2)
    IN  Signed(n.neg, IF n.coef = 0 THEN <<"0", ".", "0">>
                      ELSE IF decpt > 16 \/ decpt < -3 THEN sci ELSE fixed)

\* date.isoformat() and datetime.isoformat() (microsecond 0).
IsoFormat(v) ==
    LET date == Pad(v.dt[1], 4) \o <<"-">> \o Pad(v.dt[2], 2) \o <<"-">> \o Pad(v.dt[3], 2)
        time == Pad(v.dt[4], 2) \o <<":">> \o Pad(v.dt[5], 2) \o <<":">> \o Pad(v.dt[6], 2)
    IN  IF v.kind = "datetime" THEN date \o <<"T">> \o time ELSE date

\* str(v)
Str(v) ==
    CASE v.kind = "NoneType" -> <<"N", "o", "n", "e">>
      [] v.kind = "bool" -> IF v.b THEN <<"T", "r", "u", "e">> ELSE <<"F", "a", "l", "s", "e">>
      [] v.kind = "int" -> Signed(v.num.neg, Digits(v.num.coef))
      [] v.kind = "float" -> FloatRepr(v.num)
      [] v.kind = "time" ->
           Pad(v.dt[4], 2) \o <<":">> \o Pad(v.dt[5], 2) \o <<":">> \o Pad(v.dt[6], 2)
      [] OTHER -> v.s

\* Decimal(text) for the text of a finite number: sign, digits with an
\* optional point, optional exponent.  The digits after the point are kept.
DecimalOf(text) ==
    LET neg == text # <<>> /\ Head(text) = "-"
        body == IF neg THEN Tail(text) ELSE text
        ePos == IndexOf(body, "e")
        mant == IF ePos = 0 THEN body ELSE SubSeq(body, 1, ePos - 1)
        etxt == IF ePos = 0 THEN <<>> ELSE SubSeq(body, ePos + 1, Len(body))
        eneg == etxt # <<>> /\ Head(etxt) = "-"
        edig == IF etxt # <<>> /\ Head(etxt) \in {"-", "+"} THEN Tail(etxt) ELSE etxt
        expo == IF eneg THEN -NatOf(edig, 0) ELSE NatOf(edig, 0)
        dot == IndexOf(mant, ".")
        ipart == IF dot = 0 THEN mant ELSE SubSeq(mant, 1, dot - 1)
        fpart == IF dot = 0 THEN <<>> ELSE SubSeq(mant, dot + 1, Len(mant))
    IN  Num(neg, NatOf(ipart \o fpart, 0), expo - Len(fpart))

\* format(d, "f"): fixed-point text with every digit of the Decimal.
FormatF(d) ==
    LET digs == Digits(d.coef)
        k == -d.exp
        padded == IF Len(digs) <= k THEN Zeros(k - Len(digs) + 1) \o digs ELSE digs
        n == Len(padded)
    IN  Signed(d.neg,
               IF d.exp >= 0 THEN digs \o Zeros(d.exp)
               ELSE SubSeq(padded, 1, n - k) \o <<".">> \o SubSeq(padded, n - k + 1, n))

\* json.dumps(v) does not raise TypeError.
JsonSerializable(v) == v.kind \in {"NoneType", "bool", "int", "float", "str", "list"}

\* What _normalize_value_for_json returns: None, a bool, the dict
\* {"__num__": text}, a str, or the value itself.
JNull == [type |-> "null", b |-> FALSE, text |-> <<>>]

JBool(b) == [type |-> "bool", b |-> b, text |-> <<>>]

JNum(text) == [type |-> "num", b |-> FALSE, text |-> text]

JStr(text) == [type |-> "str", b |-> FALSE, text |-> text]

JList(text) == [type |-> "list", b |-> FALSE, text |-> text]

\* The value itself, for the classes json.dumps accepts and the function
\* has not handled before.
AsIs(v) == IF v.kind = "list" THEN JList(v.s) ELSE JStr(v.s)

\* The exact decimal expansion of the binary float nearest to 19.99.
Exact1999 ==
    <<"1", "9", ".", "9", "8", "9", "9", "9", "9", "9", "9", "9", "9", "9", "9",
      "9", "9", "9", "8", "4", "3", "6", "8", "0", "5", "9", "8", "1", "3", "2",
      "7", "7", "7", "9", "5", "9", "1", "0", "8", "3", "5", "2", "6", "6", "1",
      "1", "3", "2", "8", "1", "2", "5">>

\* A faulty variant: Decimal(v) instead of Decimal(str(v)), which gives a
\* float's exact binary expansion.
NormalizeValueForJson_Exact(v) ==
    IF v.kind = "NoneType" THEN JNull
    ELSE IF IsInstance(v, "bool") THEN JBool(v.b)
    ELSE IF IsInstance(v, "int") \/ IsInstance(v, "float")
         THEN JNum(IF v.kind = "float" /\ v.num.coef = 1999 /\ v.num.exp = -2
                   THEN Signed(v.num.neg, Exact1999)
                   ELSE FormatF(DecimalOf(Str(v))))
    ELSE IF IsInstance(v, "Decimal") THEN JNum(FormatF(v.num))
    ELSE IF IsInstance(v, "datetime") \/ IsInstance(v, "date") THEN JStr(IsoFormat(v))
    ELSE IF JsonSerializable(v) THEN AsIs(v)
    ELSE JStr(Str(v))

\* A faulty variant: the test for bool comes after the test for int.
NormalizeValueForJson_IntFirst(v) ==
    IF v.kind = "NoneType" THEN JNull
    ELSE IF IsInstance(v, "int") \/ IsInstance(v, "float")
         THEN JNum(IF v.kind = "bool" THEN (IF v.b THEN <<"1">> ELSE <<"0">>)
                   ELSE FormatF(DecimalOf(Str(v))))
    ELSE IF IsInstance(v, "bool") THEN JBool(v.b)
    ELSE IF IsInstance(v, "Decimal") THEN JNum(FormatF(v.num))
    ELSE IF IsInstance(v, "datetime") \/ IsInstance(v, "date") THEN JStr(IsoFormat(v))
    ELSE IF JsonSerializable(v) THEN AsIs(v)
    ELSE JStr(Str(v))

\* _normalize_value_for_json(v)
NormalizeValueForJson(v) ==
    IF v.kind = "NoneType" THEN JNull
    ELSE IF IsInstance(v, "bool") THEN JBool(v.b)
    ELSE IF IsInstance(v, "int") \/ IsInstance(v, "float")
         THEN JNum(FormatF(DecimalOf(Str(v))))
    ELSE IF IsInstance(v, "Decimal") THEN JNum(FormatF(v.num))
    ELSE IF IsInstance(v, "datetime") \/ IsInstance(v, "date") THEN JStr(IsoFormat(v))
    ELSE IF JsonSerializable(v) THEN AsIs(v)
    ELSE JStr(Str(v))

\* ------------------------------------- _normalize_value_for_json alone
\* The values the function is called with: every class it tests for, and
\* text that looks like a number, a truth value or a date.
Values ==
    {PyNone} \cup { PyBool(b) : b \in BOOLEAN }
    \cup { PyInt(FALSE, n) : n \in {0, 5, 42, 100, 1999} }
    \cup { PyInt(TRUE, n) : n \in {5, 42, 100, 1999} }
    \cup { PyFloat(neg, n[1], n[2]) :
              neg \in BOOLEAN,
              n \in { <<1999, -2>>, <<5, 0>>, <<1, 2>>, <<1, 22>>, <<15, -8>>,
                      <<1, -3>>, <<1, 16>>, <<123456789, -4>> } }
    \cup { PyFloat(FALSE, 0, 0) }
    \cup { PyDecimal(neg, n[1], n[2]) :
              neg \in BOOLEAN,
              n \in { <<1999, -2>>, <<50, -1>>, <<5, 0>>, <<5, 3>>, <<5, -3>> } }
    \cup { PyDecimal(FALSE, 0, 0) }
    \cup { PyDate(y, m, d) : y \in {999, 2024}, m \in {1, 12}, d \in {5, 31} }
    \cup { PyDatetime(<<2024, 1, 5, t[1], t[2], t[3]>>) :
              t \in { <<0, 0, 0>>, <<13, 4, 59>>, <<23, 59, 0>> } }
    \cup { PyTime(13, 4, 59), PyTime(0, 0, 0) }
    \cup { PyStr(t) : t \in { <<>>, <<"a", "b", "c">>, <<"5">>,
                               <<"1", "9", ".", "9", "9">>, <<"1", "e", "5">>,
                               <<"T", "r", "u", "e">>,
                               <<"2", "0", "2", "4", "-", "0", "1", "-", "0", "5">> } }
    \cup { PyList(<<"[", "]">>) }

NormalizeInit ==
    /\ WorkersInit
    /\ rs = NoCall
    /\ nv \in { [pc |-> "call", v |-> v, out |-> JNull] : v \in Values }
    /\ eng = NoRun

\* out = _normalize_value_for_json(v)
NormalizeCall ==
    /\ nv.pc = "call"
    /\ nv' = [nv EXCEPT !.pc = "ret", !.out = NormalizeValueForJson(nv.v)]
    /\ UNCHANGED <<wvars, rs, eng>>

NormalizeSpec == NormalizeInit /\ [][NormalizeCall]_vars

\* --------------------------------------------- xlsb_to_xlsx.py: one run
FLUSH_INTERVAL == 10000

LowerChar(c) ==
    CASE c = "A" -> "a" [] c = "B" -> "b" [] c = "L" -> "l"
      [] c = "S" -> "s" [] c = "X" -> "x" [] OTHER -> c

\* args.infile.lower()
Lower(text) == [i \in DOMAIN text |-> LowerChar(text[i])]

\* text.endswith(suffix)
EndsWith(text, suffix) ==
    /\ Len(text) >= Len(suffix)
    /\ SubSeq(text, Len(text) - Len(suffix) + 1, Len(text)) = suffix

\* The input file names of the runs.
InfileNames ==
    { <<"a", ".", "x", "l", "s", "b">>, <<"A", ".", "X", "L", "S", "B">>,
      <<"a", ".", "x", "l", "s", "x">>, <<"a", ".", "x", "l", "s">>,
      <<"a", ".", "c", "s", "v">>, <<"a">> }

\* A cell of a pyxlsb row: None, or an object with the attribute v.
NoCell == [none |-> TRUE, v |-> PyNone]

Cell(v) == [none |-> FALSE, v |-> v]

\* Row i of sheet k as openpyxl's iter_rows(values_only=True) yields it.
\* The rows past MaxRows are blank.
XlsxRow(k, i) ==
    IF i > MaxRows THEN <<PyNone, PyNone>>
    ELSE << PyInt(FALSE, 10 * k + i),
            CASE i % 3 = 1 -> PyStr(<<"1", "9", ".", "9", "9">>)
              [] i % 3 = 2 -> PyNone
              [] OTHER -> PyBool(TRUE) >>

\* Row i of sheet k as pyxlsb's sheet.rows() yields it.  The rows past
\* MaxRows are blank.
XlsbRow(k, i) ==
    IF i > MaxRows THEN <<Cell(PyNone), NoCell>>
    ELSE << Cell(PyFloat(FALSE, 10 * k + i, 0)),
            CASE i % 3 = 1 -> Cell(PyStr(<<"1", "9", ".", "9", "9">>))
              [] i % 3 = 2 -> (IF k = 1 THEN NoCell ELSE Cell(PyNone))
              [] OTHER -> Cell(PyBool(TRUE)) >>

\* The decoder a converter function reads its source with.
DecoderOf(conv) == IF conv = "xlsx_jsonl" THEN "xlsx" ELSE "xlsb"

SourceRow(conv, k, i) == IF DecoderOf(conv) = "xlsx" THEN XlsxRow(k, i) ELSE XlsbRow(k, i)

\* out_row of convert_xlsb_to_xlsx: cell.v, None for a missing or empty cell.
RawRow(row) ==
    [c \in DOMAIN row |-> IF row[c].none \/ row[c].v = PyNone THEN PyNone ELSE row[c].v]

\* A faulty variant: a missing or empty cell is left out of out_row.
RECURSIVE XlsbJsonRow_SkipMissing(_)
XlsbJsonRow_SkipMissing(row) ==
    IF row = <<>> THEN <<>>
    ELSE IF Head(row).none \/ Head(row).v = PyNone
         THEN XlsbJsonRow_SkipMissing(Tail(row))
         ELSE <<NormalizeValueForJson(Head(row).v)>> \o XlsbJsonRow_SkipMissing(Tail(row))

\* out_row of convert_xlsb_to_jsonl
XlsbJsonRow(row) ==
    [c \in DOMAIN row |->
        IF row[c].none \/ row[c].v = PyNone THEN JNull ELSE NormalizeValueForJson(row[c].v)]

\* out_row of convert_xlsx_to_jsonl
XlsxJsonRow(row) == [c \in DOMAIN row |-> NormalizeValueForJson(row[c])]

OutRow(conv, row) ==
    CASE conv = "xlsb_jsonl" -> XlsbJsonRow(row)
      [] conv = "xlsx_jsonl" -> XlsxJsonRow(row)
      [] OTHER -> RawRow(row)

\* --------------------------- the loop bodies of the two JSONL functions
\* The cells of a pyxlsb row: missing, or holding one of Values.
Cells == {NoCell} \cup { Cell(v) : v \in Values }

\* The rows of up to MaxCols cells.
Rows == UNION { [1..n -> Cells] : n \in 0..MaxCols }

\* The values openpyxl yields for the cells of a row (None for a missing
\* cell).
CellValues(row) == [c \in DOMAIN row |-> IF row[c].none THEN PyNone ELSE row[c].v]

RowInit ==
    /\ WorkersInit
    /\ rs = NoCall
    /\ nv \in { [pc |-> "row", row |-> row, xlsb |-> <<>>, xlsx |-> <<>>] : row \in Rows }
    /\ eng = NoRun

\* One row goes through the loop body of convert_xlsb_to_jsonl, and its
\* values through the loop body of convert_xlsx_to_jsonl.
RowCall ==
    /\ nv.pc = "row"
    /\ nv' = [nv EXCEPT !.pc = "rowret", !.xlsb = XlsbJsonRow(nv.row),
                         !.xlsx = XlsxJsonRow(CellValues(nv.row))]
    /\ UNCHANGED <<wvars, rs, eng>>

RowSpec == RowInit /\ [][RowCall]_vars

\* A run of main(argv): the command line (infile, --jsonl, --sheet) and the
\* source file (src: the format of its contents, the rows of its sheet, and
\* the row at which the decoder raises, 0 for none).
NewRun(name, jsonl, sheet, format, nrows, badRow) ==
    [pc |-> "main", infile |-> name, jsonl |-> jsonl, sheet |-> sheet,
     src |-> [format |-> format, nrows |-> nrows, badRow |-> badRow],
     conv |-> "", fallback |-> FALSE, created |-> FALSE,
     lines |-> <<>>, flushed |-> 0, held |-> <<>>, nread |-> 0,
     rows_written |-> 0, runs |-> <<>>, raised |-> <<>>,
     readAll |-> 0, rc |-> -1]

\* The runs on workbooks of up to MaxRows rows.
SmallRuns ==
    { NewRun(name, jsonl, sheet, format, nrows, badRow) :
        name \in InfileNames, jsonl \in BOOLEAN, sheet \in 0..(NumSheets + 1),
        format \in {"xlsb", "xlsx", "other"}, nrows \in 0..MaxRows,
        badRow \in {0, 2} }

EngineInit ==
    /\ WorkersInit
    /\ rs = NoCall
    /\ nv = NoNorm
    /\ eng \in SmallRuns

\* A converter function is entered.
Enter(e, conv, fallback) ==
    [e EXCEPT !.conv = conv, !.fallback = fallback, !.held = <<>>, !.nread = 0,
              !.rows_written = 0, !.runs = Append(@, conv),
              !.pc = IF conv = "xlsb_xlsx" THEN "open_in" ELSE "open_out"]

\* An exception of kind exc leaves the running converter function: the with
\* statement closes the output file, which empties the write buffer; inside
\* the inner try of main the XML-based function is entered next, otherwise
\* main logs the exception and returns 2.
Raised(e, exc) ==
    LET closed == [e EXCEPT !.flushed = Len(e.lines), !.raised = Append(@, exc)]
    IN  IF e.fallback THEN Enter(closed, "xlsx_jsonl", FALSE)
        ELSE [closed EXCEPT !.pc = "exit", !.rc = 2]

Suffix(ext) == <<".">> \o ext

\* A faulty variant: the test for ".xls" is missing.
ChooseConverter_NoXls(infile, jsonl) ==
    LET infile_lower == Lower(infile)
    IN  IF jsonl
        THEN IF EndsWith(infile_lower, Suffix(<<"x", "l", "s", "b">>))
             THEN [conv |-> "xlsb_jsonl", fallback |-> FALSE]
             ELSE IF EndsWith(infile_lower, Suffix(<<"x", "l", "s", "x">>))
                  THEN [conv |-> "xlsx_jsonl", fallback |-> FALSE]
                  ELSE [conv |-> "xlsb_jsonl", fallback |-> TRUE]
        ELSE [conv |-> "xlsb_xlsx", fallback |-> FALSE]

\* main: the converter function called first, and whether the call is the
\* one inside the inner try (the fallback branch).
ChooseConverter(infile, jsonl) ==
    LET infile_lower == Lower(infile)
    IN  IF jsonl
        THEN IF EndsWith(infile_lower, Suffix(<<"x", "l", "s", "b">>))
             THEN [conv |-> "xlsb_jsonl", fallback |-> FALSE]
             ELSE IF \/ EndsWith(infile_lower, Suffix(<<"x", "l", "s", "x">>))
                     \/ EndsWith(infile_lower, Suffix(<<"x", "l", "s">>))
                  THEN [conv |-> "xlsx_jsonl", fallback |-> FALSE]
                  ELSE [conv |-> "xlsb_jsonl", fallback |-> TRUE]
        ELSE [conv |-> "xlsb_xlsx", fallback |-> FALSE]

\* main, up to the call of the converter function.
Dispatch ==
    /\ eng.pc = "main"
    /\ LET c == ChooseConverter(eng.infile, eng.jsonl)
       IN  eng' = Enter(eng, c.conv, c.fallback)
    /\ UNCHANGED <<wvars, rs, nv>>

\* open(str(out_path), "w", ...): the output file is created, or emptied.
OpenOutput ==
    /\ eng.pc = "open_out"
    /\ eng' = [eng EXCEPT !.created = TRUE, !.lines = <<>>, !.flushed = 0,
                           !.pc = "open_in"]
    /\ UNCHANGED <<wvars, rs, nv>>

\* open_workbook / load_workbook reads a file of its own format.
OpenWorkbookOk ==
    /\ eng.pc = "open_in"
    /\ eng.src.format = DecoderOf(eng.conv)
    /\ eng' = [eng EXCEPT !.pc = "check"]
    /\ UNCHANGED <<wvars, rs, nv>>

\* open_workbook / load_workbook raises on any other file.
OpenWorkbookFail ==
    /\ eng.pc = "open_in"
    /\ eng.src.format # DecoderOf(eng.conv)
    /\ eng' = Raised(eng, "decode")
    /\ UNCHANGED <<wvars, rs, nv>>

\* if sheet_index < 1 or sheet_index > len(sheet_names): false.
CheckSheetOk ==
    /\ eng.pc = "check"
    /\ ~(eng.sheet < 1 \/ eng.sheet > NumSheets)
    /\ eng' = [eng EXCEPT !.pc = "read"]
    /\ UNCHANGED <<wvars, rs, nv>>

\* raise ValueError("sheet_index ... out of range ...")
CheckSheetRange ==
    /\ eng.pc = "check"
    /\ eng.sheet < 1 \/ eng.sheet > NumSheets
    /\ eng' = Raised(eng, "range")
    /\ UNCHANGED <<wvars, rs, nv>>

\* for row in sheet.rows() / sheet.iter_rows(values_only=True): the next row.
ReadRow ==
    /\ eng.pc = "read"
    /\ eng.nread < eng.src.nrows
    /\ eng.nread + 1 # eng.src.badRow
    /\ eng' = [eng EXCEPT !.held = <<SourceRow(eng.conv, eng.sheet, eng.nread + 1)>>,
                           !.nread = @ + 1, !.readAll = @ + 1, !.pc = "write"]
    /\ UNCHANGED <<wvars, rs, nv>>

\* The decoder raises on the row it is asked for.
ReadRowFail ==
    /\ eng.pc = "read"
    /\ eng.nread < eng.src.nrows
    /\ eng.nread + 1 = eng.src.badRow
    /\ eng' = Raised(eng, "decode")
    /\ UNCHANGED <<wvars, rs, nv>>

\* A faulty variant: the loop writes the row and never flushes.
WriteRow_NoFlush ==
    /\ eng.pc = "write"
    /\ eng.conv # "xlsb_xlsx"
    /\ eng' = [eng EXCEPT !.lines = Append(@, OutRow(eng.conv, eng.held[1])),
                           !.rows_written = @ + 1, !.pc = "read"]
    /\ UNCHANGED <<wvars, rs, nv>>

\* A faulty variant: a row without a value is not written.
WrittenLines_SkipEmpty(lines, out_row) ==
    IF \E c \in DOMAIN out_row : out_row[c] = JNull THEN lines ELSE Append(lines, out_row)

\* fout.write(json.dumps(out_row, ensure_ascii=False) + "\n")
WrittenLines(lines, out_row) == Append(lines, out_row)

\* The body of the for loop of the JSONL functions: out_row, the write,
\* rows_written += 1, and the flush every FLUSH_INTERVAL rows.
WriteRow ==
    /\ eng.pc = "write"
    /\ eng.conv # "xlsb_xlsx"
    /\ LET lines == WrittenLines(eng.lines, OutRow(eng.conv, eng.held[1]))
           rows_written == eng.rows_written + 1
       IN  eng' = [eng EXCEPT !.lines = lines, !.rows_written = rows_written,
                              !.flushed = IF rows_written % FLUSH_INTERVAL = 0
                                          THEN Len(lines) ELSE @,
                              !.pc = "read"]
    /\ UNCHANGED <<wvars, rs, nv>>

\* The body of the for loop of convert_xlsb_to_xlsx: ws_out.append(out_row).
AppendRow ==
    /\ eng.pc = "write"
    /\ eng.conv = "xlsb_xlsx"
    /\ eng' = [eng EXCEPT !.lines = Append(@, OutRow(eng.conv, eng.held[1])),
                           !.pc = "read"]
    /\ UNCHANGED <<wvars, rs, nv>>

\* The rows are exhausted: the with statement closes the output file, the
\* JSONL function returns and main returns 0.
ReturnJsonl ==
    /\ eng.pc = "read"
    /\ eng.conv # "xlsb_xlsx"
    /\ eng.nread = eng.src.nrows
    /\ eng' = [eng EXCEPT !.flushed = Len(eng.lines), !.pc = "exit", !.rc = 0]
    /\ UNCHANGED <<wvars, rs, nv>>

\* The rows are exhausted: wb_out.save(str(out_path)) creates the output
\* file, convert_xlsb_to_xlsx returns and main returns 0.
SaveWorkbook ==
    /\ eng.pc = "read"
    /\ eng.conv = "xlsb_xlsx"
    /\ eng.nread = eng.src.nrows
    /\ eng' = [eng EXCEPT !.created = TRUE, !.flushed = Len(eng.lines),
                           !.pc = "exit", !.rc = 0]
    /\ UNCHANGED <<wvars, rs, nv>>

EngineNext ==
    \/ Dispatch \/ OpenOutput \/ OpenWorkbookOk \/ OpenWorkbookFail
    \/ CheckSheetOk \/ CheckSheetRange \/ ReadRow \/ ReadRowFail
    \/ WriteRow \/ AppendRow \/ ReturnJsonl \/ SaveWorkbook

EngineSpec == EngineInit /\ [][EngineNext]_vars

\* The state of a JSON-lines run at the top of the for loop of converter
\* function conv once the loop body has run for the first n rows (n >= 1,
\* none of them the row the decoder raises on): n lines written, of which
\* the multiples of FLUSH_INTERVAL were flushed.
AfterRows(run, conv, n) ==
    [run EXCEPT !.conv = conv, !.created = TRUE,
                !.lines = [i \in 1..n |-> OutRow(conv, SourceRow(conv, run.sheet, i))],
                !.flushed = (n \div FLUSH_INTERVAL) * FLUSH_INTERVAL,
                !.held = <<SourceRow(conv, run.sheet, n)>>,
                !.nread = n, !.rows_written = n, !.runs = <<conv>>,
                !.readAll = n, !.pc = "read"]

\* JSON-lines runs on a workbook whose sheet has more rows than
\* FLUSH_INTERVAL, taken two rows before rows_written reaches its k-th
\* multiple of FLUSH_INTERVAL.
LongRunsOf(name, format, conv, k) ==
    { AfterRows(NewRun(name, TRUE, sheet, format,
                       k * FLUSH_INTERVAL - 2 + more, badRow),
                conv, k * FLUSH_INTERVAL - 2) :
        sheet \in 1..NumSheets, more \in 0..(MaxRows + 2),
        badRow \in {0, k * FLUSH_INTERVAL + 2} }

LongInit ==
    /\ WorkersInit
    /\ rs = NoCall
    /\ nv = NoNorm
    /\ eng \in SmallRuns \cup UNION {
           LongRunsOf(<<"a", ".", "x", "l", "s", "b">>, "xlsb", "xlsb_jsonl", k)
           \cup LongRunsOf(<<"a", ".", "x", "l", "s", "x">>, "xlsx", "xlsx_jsonl", k) :
           k \in 1..2 }

\* The runs of the converter script, long workbooks included.
LongSpec == LongInit /\ [][EngineNext]_vars

\* ------------------------------------------------------------------ claims
Terminal == {"READY", "FAILED"}

\* The places of main_loop between a successful claim and the end of the
\* iteration that handles the claimed job.
Holding == {"resolve", "convert", "wexec", "wcommit"}

Holders(j) == { w \in Workers : wk[w].cur = j /\ wk[w].pc \in Holding }

\* Job j was claimed and no worker is handling it any more.
Settled(j) == hist[j].claims >= 1 /\ Holders(j) = {}

CommittedPending == { j \in Jobs : bases[j].status = "PENDING" }

\* C1: at-most-one claim.  Whatever the interleaving of the workers'
\* claim_pending calls: no job is returned to two workers, two workers never
\* hold the same claimed id, and a claim_pending that raised nothing returns
\* None only when no job is PENDING any more (the racing worker that won
\* took it).  So of N workers racing for one PENDING job exactly one gets it
\* and the others get None.
C1_AtMostOneClaim ==
    /\ \A j \in Jobs : hist[j].claims <= 1
    /\ \A w1, w2 \in Workers :
          (w1 # w2 /\ wk[w1].claimed > 0) => wk[w2].claimed # wk[w1].claimed
    /\ \A w \in Workers :
          (wk[w].claimed = 0 /\ wk[w].exc = "") => CommittedPending = {}

\* Two workers raced for the only PENDING job: one holds it, the other, which
\* had to wait in BEGIN IMMEDIATE, was told None.
C1_Witness ==
    \E w1, w2 \in Workers :
        /\ w1 # w2
        /\ wk[w1].claimed > 0
        /\ wk[w1].pc = "resolve"
        /\ wk[w2].claimed = 0
        /\ wk[w2].exc = ""
        /\ wk[w2].raced = 1

\* C2: single ownership.  Store faults and signals included, every job id is
\* returned by a successful claim_pending at most once, and at most one
\* worker is between its claim of a job and the end of that job's handling.
C2_SingleOwnership ==
    \A j \in Jobs :
        /\ hist[j].claims <= 1
        /\ Cardinality(Holders(j)) <= 1

\* One worker converts a job it claimed while another worker is inside
\* claim_pending, about to run its conditional UPDATE on another job.
C2_Witness ==
    \E w1, w2 \in Workers :
        /\ w1 # w2
        /\ wk[w1].pc = "convert"
        /\ hist[wk[w1].cur].claims = 1
        /\ wk[w2].pc = "update"

\* C3: no terminal regression.  Once the committed status of a job is READY
\* or FAILED, no step sets it to PENDING or RUNNING, and no claim_pending
\* returns the job.
C3_NoTerminalRegression ==
    [][\A j \in Jobs :
          bases[j].status \in Terminal =>
              /\ bases'[j].status \in Terminal
              /\ hist'[j].claims = hist[j].claims]_vars

\* A job is terminal and a worker is inside claim_pending, having selected.
C3_Witness ==
    \E j \in Jobs, w \in Workers :
        /\ bases[j].status \in Terminal
        /\ hist[j].writes = 1
        /\ wk[w].pc = "update"

\* C4: claim order.  A successful claim_pending returns the smallest PENDING
\* id: job b is never claimed while a job a < b is PENDING.
C4_ClaimOrder ==
    [][\A b \in Jobs :
          hist'[b].claims > hist[b].claims =>
              \A a \in Jobs : a < b => bases[a].status # "PENDING"]_vars

\* Two jobs were PENDING, the first has been claimed and the second not yet.
C4_Witness ==
    \E a, b \in Jobs :
        /\ a < b
        /\ hist[a].claims = 1
        /\ bases[a].status = "RUNNING"
        /\ bases[b].status = "PENDING"

\* C5: exactly one terminal update.  Every job a worker has claimed and
\* finished handling has exactly one committed terminal status write, and no
\* job ever has two.
C5_ExactlyOneTerminalUpdate ==
    \A j \in Jobs :
        /\ hist[j].writes <= 1
        /\ Settled(j) => hist[j].writes = 1

C7_OutcomeMapping ==
    \A j \in Jobs :
        (Settled(j) /\ hist[j].conv # "none") =>
            /\ hist[j].conv # "again"
            /\ bases[j].status = "READY" <=> hist[j].conv = "zero"
            /\ hist[j].conv \in {"nonzero", "raised"} => bases[j].status = "FAILED"

\* The message names every path of the candidate list.
Enumerates(msg, candidates) ==
    \A i \in DOMAIN candidates : \E k \in DOMAIN msg.paths : msg.paths[k] = candidates[i]

\* C8: resolver exhaustion.  A job recorded with the "not found" outcome is
\* FAILED, its converter was not run, and its error message enumerates every
\* candidate path of its sourceRef.
C8_ResolverExhaustion ==
    \A j \in Jobs :
        bases[j].err.text = "uploaded file not found" =>
            /\ bases[j].status = "FAILED"
            /\ hist[j].conv = "none"
            /\ Enumerates(bases[j].err, Candidates(bases[j].ref))

\* C9: a store fault is never surfaced as a job failure.  No job is recorded
\* FAILED with the text of a store exception as its error.
C9_StoreFaultNotJobFailure ==
    \A j \in Jobs : ~(bases[j].status = "FAILED" /\ bases[j].err.text = "store")

\* C10: the worker never crashes.  No exception escapes main_loop; whenever a
\* worker is at the loop test or has returned, its connection is not open
\* and it holds no transaction; and main_loop has returned only with the
\* running flag false.
C10_NeverCrashes ==
    \A w \in Workers :
        /\ wk[w].pc # "crashed"
        /\ wk[w].pc \in {"loop", "done"} =>
              /\ wk[w].conn # "open"
              /\ tx[w] = NoTx
              /\ txOwner # w
        /\ wk[w].pc = "done" => ~wk[w].running

\* A status write of the exception handler raised with the transaction open:
\* the worker is back at the loop test, connection closed, backoff doubled,
\* and the job it held is left RUNNING.
C10_Witness ==
    \E w \in Workers, j \in Jobs :
        /\ wk[w].pc = "loop"
        /\ wk[w].conn = "closed"
        /\ wk[w].backoff = 2 * POLL_INTERVAL
        /\ bases[j].status = "RUNNING"
        /\ hist[j].conv = "raised"
        /\ Holders(j) = {}

\* The time slept on the i-th connect_db failure of a run of failures that
\* began with the backoff at its base value.
ConnectSleep(base, i) == Min(base * 2^(i - 1), BACKOFF_MAX_SECONDS)

\* C11 as stated: the i-th consecutive connect_db failure sleeps
\* min(POLL_INTERVAL * 2^(i-1), BACKOFF_MAX_SECONDS), no sleep exceeds
\* BACKOFF_MAX_SECONDS, and after a successful connect_db the backoff is
\* POLL_INTERVAL.
C11_ConnectBackoff ==
    \A w \in Workers :
        /\ wk[w].sleepFor <= BACKOFF_MAX_SECONDS
        /\ (wk[w].pc = "loop" /\ wk[w].fails >= 1) =>
               wk[w].sleepFor = ConnectSleep(POLL_INTERVAL, wk[w].fails)
        /\ wk[w].pc \notin {"loop", "done"} => wk[w].backoff = POLL_INTERVAL

\* C11 (amended): the backoff a run of connect_db failures starts from is
\* POLL_INTERVAL, or 2 * POLL_INTERVAL when the iteration before the run ended
\* in the loop-level except clause (which doubles the same variable); the
\* i-th failure of the run sleeps min(start * 2^(i-1), BACKOFF_MAX_SECONDS);
\* no sleep exceeds BACKOFF_MAX_SECONDS; after a successful connect_db the
\* backoff is POLL_INTERVAL.
C11_ConnectBackoffFromStart ==
    \A w \in Workers :
        LET start == IF wk[w].faulted THEN 2 * POLL_INTERVAL ELSE POLL_INTERVAL
        IN  /\ wk[w].sleepFor <= BACKOFF_MAX_SECONDS
            /\ (wk[w].pc = "loop" /\ wk[w].fails >= 1) =>
                   /\ wk[w].sleepFor = ConnectSleep(start, wk[w].fails)
                   /\ wk[w].backoff = ConnectSleep(start, wk[w].fails + 1)
            /\ wk[w].pc \notin {"loop", "done"} => wk[w].backoff = POLL_INTERVAL

\* One worker has failed to connect four times in a row from the base
\* backoff (its last sleep was the cap), another twice right after a
\* loop-level fault.
C11_Witness ==
    \E w1, w2 \in Workers :
        /\ wk[w1].pc = "loop" /\ wk[w1].fails = 4 /\ ~wk[w1].faulted
        /\ wk[w1].sleepFor = BACKOFF_MAX_SECONDS
        /\ wk[w2].pc = "loop" /\ wk[w2].fails = 2 /\ wk[w2].faulted
        /\ wk[w2].sleepFor = 4 * POLL_INTERVAL

\* C12 as stated: once the running flag is false, no claim_pending of that
\* worker returns a job.
C12_NoClaimAfterSignal ==
    [][\A w \in Workers :
          (wk[w].pc = "commit" /\ wk'[w].claimed > 0) => wk[w].running]_vars

\* C12 (amended): the flag, once false, stays false; a worker that finds it
\* false at the loop test starts no iteration (no connect_db, no
\* claim_pending) and returns from main_loop, and does nothing after that.
\* Only the iteration already past the loop test when the flag was set
\* still runs its claim_pending.
C12_NoClaimAfterLoopTest ==
    [][\A w \in Workers :
          /\ ~wk[w].running => ~wk'[w].running
          /\ (wk[w].pc = "loop" /\ ~wk[w].running) => wk'[w].pc \in {"loop", "done"}
          /\ wk[w].pc = "done" => wk'[w] = wk[w]]_vars

\* A worker has returned from main_loop on the flag while a job is still
\* PENDING and never claimed.
C12_Witness ==
    \E w \in Workers, j \in Jobs :
        /\ wk[w].pc = "done"
        /\ ~wk[w].running
        /\ bases[j].status = "PENDING"
        /\ hist[j].claims = 0

\* C13: shutdown finishes the in-flight job.  When a worker whose running
\* flag is false leaves the handling of the job it claimed, that job is
\* committed READY or FAILED.
C13_ShutdownFinishesInFlight ==
    [][\A w \in Workers :
          (~wk[w].running /\ wk[w].pc \in Holding /\ wk'[w].pc \notin Holding) =>
              bases'[wk[w].cur].status \in Terminal]_vars

\* The workers that are running the converter.
Converting == { w \in Workers : wk[w].pc = "convert" }

\* C14: output path exclusivity.  The output path a worker hands to the
\* converter is AbsOutput of the id it claimed, and no two workers run the
\* converter on the same output path.
C14_OutputPathExclusive ==
    \A w1, w2 \in Converting :
        w1 # w2 => AbsOutput(wk[w1].cur) # AbsOutput(wk[w2].cur)

\* Two workers run the converter at the same time, each on a job it claimed.
C14_Witness ==
    \E w1, w2 \in Converting :
        /\ w1 # w2
        /\ hist[wk[w1].cur].claims = 1
        /\ hist[wk[w2].cur].claims = 1

\* C15: field discipline.  A committed row whose arquivo_jsonl_path is set
\* is READY, one whose conversion_error is set is FAILED, and no row has
\* both set.
C15_FieldDiscipline ==
    \A j \in Jobs :
        /\ bases[j].out # NoPath => bases[j].status = "READY"
        /\ bases[j].err # NoMsg => bases[j].status = "FAILED"
        /\ ~(bases[j].out # NoPath /\ bases[j].err # NoMsg)

\* C17: resolver result.  For a non-empty arquivo_caminho and any set of
\* existing files, the candidate list resolve_uploaded_path returns has no
\* path twice, the returned path is the first candidate that exists, and it
\* is None exactly when no candidate exists.
C17_ResolverResult ==
    (rs.pc = "ret" /\ rs.ref # EmptyRef) =>
        LET c == rs.candidates
        IN  /\ c # <<>>
            /\ \A i, k \in DOMAIN c : i # k => c[i] # c[k]
            /\ rs.path = NoPath <=> \A i \in DOMAIN c : c[i] \notin rs.disk
            /\ rs.path # NoPath =>
                   \E i \in DOMAIN c :
                       /\ c[i] = rs.path
                       /\ c[i] \in rs.disk
                       /\ \A k \in 1..(i - 1) : c[k] \notin rs.disk

\* A relative reference whose joins repeat (fewer candidates than the
\* fifteen joins made), two of its candidates exist, and the one returned is
\* the earlier of the two and not the head of the list.
C17_Witness ==
    /\ rs.pc = "ret"
    /\ ~rs.ref.abs
    /\ Len(rs.candidates) < 15
    /\ rs.path # NoPath
    /\ rs.path # rs.candidates[1]
    /\ \E i \in DOMAIN rs.candidates :
           rs.candidates[i] \in rs.disk /\ rs.candidates[i] # rs.path

\* A number without the trailing zeros of its digits.
RECURSIVE Canon(_)
Canon(n) ==
    IF n.coef # 0 /\ n.coef % 10 = 0 THEN Canon(Num(n.neg, n.coef \div 10, n.exp + 1))
    ELSE IF n.coef = 0 THEN Num(n.neg, 0, 0)
    ELSE n

\* Digits without their trailing zeros.
RECURSIVE StripZeros(_)
StripZeros(digs) ==
    IF digs # <<>> /\ digs[Len(digs)] = "0" THEN StripZeros(SubSeq(digs, 1, Len(digs) - 1))
    ELSE digs

\* The number a plain decimal numeral [-]digits[.digits] denotes, without
\* trailing zeros.
NumeralValue(text) ==
    LET neg == text # <<>> /\ Head(text) = "-"
        body == IF neg THEN Tail(text) ELSE text
        dot == IndexOf(body, ".")
        ipart == IF dot = 0 THEN body ELSE SubSeq(body, 1, dot - 1)
        fpart == IF dot = 0 THEN <<>> ELSE StripZeros(SubSeq(body, dot + 1, Len(body)))
        sig == IF fpart = <<>> THEN StripZeros(ipart) ELSE ipart \o fpart
        exp == IF fpart = <<>> THEN Len(ipart) - Len(sig) ELSE -Len(fpart)
    IN  IF NatOf(sig, 0) = 0 THEN Num(neg, 0, 0) ELSE Num(neg, NatOf(sig, 0), exp)

\* Text of the form [-]digits[.digits].
IsDecimalText(text) ==
    LET body == IF text # <<>> /\ Head(text) = "-" THEN Tail(text) ELSE text
        dot == IndexOf(body, ".")
    IN  /\ body # <<>>
        /\ \A i \in DOMAIN body : IsDigit(body[i]) \/ i = dot
        /\ dot # 1 /\ dot # Len(body)

\* Text of the form YYYY-MM-DD that reads as the date of dt.
IsIsoDate(text, dt) ==
    /\ Len(text) = 10
    /\ text[5] = "-" /\ text[8] = "-"
    /\ NatOf(SubSeq(text, 1, 4), 0) = dt[1]
    /\ NatOf(SubSeq(text, 6, 7), 0) = dt[2]
    /\ NatOf(SubSeq(text, 9, 10), 0) = dt[3]

\* Text of the form HH:MM:SS that reads as the time of dt.
IsIsoTime(text, dt) ==
    /\ Len(text) = 8
    /\ text[3] = ":" /\ text[6] = ":"
    /\ NatOf(SubSeq(text, 1, 2), 0) = dt[4]
    /\ NatOf(SubSeq(text, 4, 5), 0) = dt[5]
    /\ NatOf(SubSeq(text, 7, 8), 0) = dt[6]

\* C20: value normalization by kind.  _normalize_value_for_json returns
\* None for None; a bool as it is, never tagged; for an int, a float or a
\* Decimal the tagged {"__num__": text} whose text is a plain decimal
\* numeral of the same number; for a date or datetime its ISO-8601 text; a
\* str or list as it is (a str that looks numeric stays a str); and the
\* text form of a value json cannot represent.
C20_NormalizationByKind ==
    nv.pc = "ret" =>
        LET v == nv.v
            out == nv.out
        IN  CASE v.kind = "NoneType" -> out = JNull
              [] v.kind = "bool" -> out.type = "bool" /\ out.b = v.b
              [] v.kind \in {"int", "float", "Decimal"} ->
                   /\ out.type = "num"
                   /\ IsDecimalText(out.text)
                   /\ NumeralValue(out.text) = Canon(v.num)
              [] v.kind = "date" -> out.type = "str" /\ IsIsoDate(out.text, v.dt)
              [] v.kind = "datetime" ->
                   /\ out.type = "str"
                   /\ Len(out.text) = 19
                   /\ IsIsoDate(SubSeq(out.text, 1, 10), v.dt)
                   /\ out.text[11] = "T"
                   /\ IsIsoTime(SubSeq(out.text, 12, 19), v.dt)
              [] v.kind = "str" -> out.type = "str" /\ out.text = v.s
              [] v.kind = "list" -> out.type = "list" /\ out.text = v.s
              [] OTHER -> out.type = "str" /\ IsIsoTime(out.text, v.dt)

\* The function has returned for the float 1e+22, whose repr is in exponent
\* form: a tagged numeral of 23 digits.
C20_Witness ==
    /\ nv.pc = "ret"
    /\ nv.v = PyFloat(FALSE, 1, 22)
    /\ nv.out.type = "num"
    /\ Len(nv.out.text) = 23

SheetOutOfRange == eng.sheet < 1 \/ eng.sheet > NumSheets

RangeErrorRaised == \E i \in DOMAIN eng.raised : eng.raised[i] = "range"

\* A converter function of the run could open the source file.
SourceOpened == \E i \in DOMAIN eng.runs : DecoderOf(eng.runs[i]) = eng.src.format

\* C16: sheet bounds.  In every mode, a run whose sheet index is below 1 or
\* above the sheet count of a source it can open raises the range error and
\* exits non-zero, and when the range error is raised no output file has
\* been created and no row has been read.
C16_SheetBounds ==
    /\ (eng.pc = "exit" /\ SheetOutOfRange) => eng.rc # 0
    /\ (eng.pc = "exit" /\ SheetOutOfRange /\ SourceOpened) => RangeErrorRaised
    /\ RangeErrorRaised => (~eng.created /\ eng.readAll = 0)

XlsbNames == { <<"a", ".", "x", "l", "s", "b">>, <<"A", ".", "X", "L", "S", "B">> }

XmlNames == { <<"a", ".", "x", "l", "s", "x">>, <<"a", ".", "x", "l", "s">> }

\* C18: format dispatch (extensions read without regard to case).  With
\* --jsonl a .xlsb input is given to the binary decoder only, a .xlsx or
\* .xls input to the XML-based decoder only, any other input to the binary
\* decoder first and to the XML-based decoder exactly when the binary one
\* raised; without --jsonl only convert_xlsb_to_xlsx runs.  The exit status
\* is 0 when the last converter run returned and 2 when it raised.
C18_FormatDispatch ==
    eng.pc = "exit" =>
        /\ (eng.jsonl /\ eng.infile \in XlsbNames) => eng.runs = <<"xlsb_jsonl">>
        /\ (eng.jsonl /\ eng.infile \in XmlNames) => eng.runs = <<"xlsx_jsonl">>
        /\ (eng.jsonl /\ eng.infile \notin XlsbNames \cup XmlNames) =>
               \/ eng.runs = <<"xlsb_jsonl">> /\ eng.raised = <<>>
               \/ eng.runs = <<"xlsb_jsonl", "xlsx_jsonl">> /\ eng.raised # <<>>
        /\ ~eng.jsonl => eng.runs = <<"xlsb_xlsx">>
        /\ eng.rc \in {0, 2}
        /\ eng.rc = 0 <=> Len(eng.raised) = Len(eng.runs) - 1
        /\ eng.rc # 0 <=> Len(eng.raised) = Len(eng.runs)

\* An input without extension that holds an XML-based workbook: the binary
\* decoder raised, the XML-based one converted it, exit status 0.
C18_Witness ==
    /\ eng.pc = "exit"
    /\ eng.infile = <<"a">>
    /\ eng.runs = <<"xlsb_jsonl", "xlsx_jsonl">>
    /\ eng.raised = <<"decode">>
    /\ eng.rc = 0
    /\ Len(eng.lines) = MaxRows

\* The normalized form of row i of sheet k as the decoder of conv yields it.
NormalizedRow(conv, k, i) ==
    LET row == SourceRow(conv, k, i)
        value(c) == IF DecoderOf(conv) = "xlsx" THEN row[c]
                    ELSE IF row[c].none THEN PyNone ELSE row[c].v
    IN  [c \in DOMAIN row |-> NormalizeValueForJson(value(c))]

\* C19: row streaming.  In JSON-lines mode the lines written are, in order,
\* the normalized forms of the source rows read so far; a row is written
\* before the next one is read, so at most one source row is held; and a
\* run that exits with 0 has written one line per row of the sheet.
C19_RowStreaming ==
    (eng.pc \notin {"main", "open_out"} /\ eng.conv # "xlsb_xlsx") =>
        /\ Len(eng.held) <= 1
        /\ \A i \in DOMAIN eng.lines :
               eng.lines[i] = NormalizedRow(eng.conv, eng.sheet, i)
        /\ eng.pc = "write" => Len(eng.lines) = eng.nread - 1
        /\ eng.pc = "read" => Len(eng.lines) = eng.nread
        /\ (eng.pc = "exit" /\ eng.rc = 0) =>
               /\ Len(eng.lines) = eng.src.nrows
               /\ eng.flushed = Len(eng.lines)

\* A binary workbook whose sheet has MaxRows rows was converted to as many
\* lines, exit status 0.
C19_Witness ==
    /\ eng.pc = "exit"
    /\ eng.rc = 0
    /\ eng.conv = "xlsb_jsonl"
    /\ eng.src.nrows = MaxRows
    /\ Len(eng.lines) = MaxRows
    /\ eng.nread = MaxRows

\* C21: numeric round trip.  The float nearest to 19.99 is emitted as the
\* tagged numeral "19.99"; in general the numeral emitted for an int or a
\* float denotes the number its str() text denotes, and has no more
\* significant digits than that text.
C21_NumericRoundTrip ==
    (nv.pc = "ret" /\ nv.v.kind \in {"int", "float"}) =>
        /\ nv.out.type = "num"
        /\ (nv.v.kind = "float" /\ nv.v.num = Num(FALSE, 1999, -2)) =>
               nv.out.text = <<"1", "9", ".", "9", "9">>
        /\ Len(nv.out.text) <= 24
        /\ NumeralValue(nv.out.text) = Canon(DecimalOf(Str(nv.v)))

\* The function has returned for the float nearest to 19.99.
C21_Witness ==
    /\ nv.pc = "ret"
    /\ nv.v = PyFloat(FALSE, 1999, -2)
    /\ nv.out = JNum(<<"1", "9", ".", "9", "9">>)

\* C22: idle polling does not escalate.  Whenever claim_pending returns
\* None, the worker closes its connection, sleeps POLL_INTERVAL and leaves
\* the backoff as it was (POLL_INTERVAL), and the step changes no job: the
\* worker is back at the loop test in the state every empty poll leaves, so
\* any number of consecutive empty polls sleeps POLL_INTERVAL each.
C22_IdlePollingFlat ==
    [][\A w \in Workers :
          (wk[w].pc \in {"select", "update", "commit"} /\ wk'[w].pc = "loop") =>
              /\ wk'[w].claimed = 0
              /\ wk'[w].conn = "closed"
              /\ wk'[w].sleepFor = POLL_INTERVAL
              /\ wk'[w].backoff = wk[w].backoff
              /\ wk'[w].backoff = POLL_INTERVAL
              /\ tx'[w] = NoTx
              /\ bases' = bases
              /\ hist' = hist]_vars

\* Every job is terminal and a worker has polled again and found nothing:
\* it slept POLL_INTERVAL with its backoff at POLL_INTERVAL.
C22_Witness ==
    \E w \in Workers :
        /\ \A j \in Jobs : bases[j].status \in Terminal
        /\ wk[w].pc = "loop"
        /\ wk[w].claimed = 0
        /\ wk[w].exc = ""
        /\ wk[w].conn = "closed"
        /\ wk[w].sleepFor = POLL_INTERVAL
        /\ wk[w].backoff = POLL_INTERVAL

\* The step is a loop-level fault of worker w: an exception leaves the
\* handling of the iteration through the except clause of the loop.
LoopFault(w) == wk[w].pc \notin {"loop", "done"} /\ wk'[w].pc = "loop" /\ wk'[w].faulted

\* C23: loop-level fault backoff.  The first loop-level fault of a run of
\* consecutive faulting iterations sleeps POLL_INTERVAL, and the i-th
\* (i >= 2) sleeps min(POLL_INTERVAL * 2^(i-1), BACKOFF_MAX_SECONDS): a
\* fault in the iteration right after a faulting iteration sleeps one of the
\* doubled values.
C23_LoopFaultBackoff ==
    [][\A w \in Workers :
          LoopFault(w) =>
              IF wk[w].prior
              THEN wk'[w].sleepFor \in
                       { ConnectSleep(POLL_INTERVAL, i) : i \in 2..(MaxFails + 1) }
              ELSE wk'[w].sleepFor = POLL_INTERVAL]_vars

\* C25: no job is stranded in RUNNING.  In every reachable state a job whose
\* committed status is RUNNING is being handled by a worker (which will
\* write its READY or FAILED status), also after a terminal status write
\* raised and the worker took the loop-level except clause.
C25_NoStrandedRunning ==
    \A j \in Jobs : bases[j].status = "RUNNING" => Holders(j) # {}

\* The step stays inside one run of a JSON-lines converter function.
SameJsonlRun ==
    /\ eng.pc \in {"open_in", "check", "read", "write"}
    /\ eng.conv # "xlsb_xlsx"
    /\ eng'.runs = eng.runs

\* C26: bounded unflushed tail.  In JSON-lines mode each row written
\* increments rows_written, the writer is flushed when rows_written is a
\* multiple of FLUSH_INTERVAL, so after every row iteration fewer than
\* FLUSH_INTERVAL lines are unflushed; and within one run of a converter
\* function the flushed lines stay as they are: later writes neither change
\* nor remove them.
C26_BoundedUnflushedTail ==
    [][SameJsonlRun =>
          /\ eng'.flushed >= eng.flushed
          /\ SubSeq(eng'.lines, 1, eng.flushed) = SubSeq(eng.lines, 1, eng.flushed)
          /\ eng.pc = "write" =>
                 /\ eng'.rows_written = eng.rows_written + 1
                 /\ Len(eng'.lines) = eng'.rows_written
                 /\ eng'.rows_written % FLUSH_INTERVAL = 0 =>
                        eng'.flushed = Len(eng'.lines)
                 /\ Len(eng'.lines) - eng'.flushed < FLUSH_INTERVAL]_vars

\* FLUSH_INTERVAL rows were written and flushed, and one more row has been
\* written since, which is still in the buffer.
C26_Witness ==
    /\ eng.pc = "read"
    /\ eng.conv = "xlsb_jsonl"
    /\ eng.flushed = FLUSH_INTERVAL
    /\ eng.rows_written = FLUSH_INTERVAL + 1
    /\ Len(eng.lines) = FLUSH_INTERVAL + 1

\* C27: uniform normalization across decoders.  For every row, the array
\* convert_xlsb_to_jsonl writes for its cells (null for a missing cell or a
\* cell whose value is None) equals the array convert_xlsx_to_jsonl writes
\* for the same values: one entry per cell, the same entry in both.
C27_UniformNormalization ==
    nv.pc = "rowret" =>
        /\ Len(nv.xlsb) = Len(nv.row)
        /\ Len(nv.xlsx) = Len(nv.row)
        /\ \A c \in DOMAIN nv.row : nv.xlsb[c] = nv.xlsx[c]
        /\ \A c \in DOMAIN nv.row :
               (nv.row[c].none \/ nv.row[c].v = PyNone) <=> nv.xlsb[c] = JNull

\* A row with a missing cell and the float nearest to 19.99: both loop
\* bodies wrote [null, {"__num__": "19.99"}].
C27_Witness ==
    /\ nv.pc = "rowret"
    /\ nv.row = <<NoCell, Cell(PyFloat(FALSE, 1999, -2))>>
    /\ nv.xlsb = <<JNull, JNum(<<"1", "9", ".", "9", "9">>)>>
    /\ nv.xlsx = nv.xlsb

\* C28: captured diagnostics.  When the converter exits with a non-zero
\* status, the error text committed with the FAILED status carries both
\* captured streams: each stream that is not empty is in the text.  (The
\* text is "converter exit <rc>: <diag>" and diag is one stream as captured,
\* so a stream is in the text exactly when it is diag.)
C28_BothStreamsRecorded ==
    [][\A w \in Workers :
          (wk[w].pc = "wcommit" /\ wk[w].site = "status_failed" /\ wk'[w].pc = "loop"
           /\ bases'[wk[w].cur].status = "FAILED") =>
              \A stream \in {wk[w].res.out, wk[w].res.err} :
                  stream = "" \/ bases'[wk[w].cur].err.diag = stream]_vars

\* C29: the write transaction never spans a conversion.  A worker that is
\* at the loop test (sleeping included), resolving the path or running the
\* converter, or that has returned, has no uncommitted write and does not
\* hold the write lock of the store: claim_pending ended its transaction.
C29_NoTxAcrossConversion ==
    \A w \in Workers :
        wk[w].pc \in {"loop", "resolve", "convert", "done"} =>
            /\ tx[w] = NoTx
            /\ txOwner # w

\* While one worker runs the converter, another holds the write lock inside
\* claim_pending, about to commit its claim of another job.
C29_Witness ==
    \E w1, w2 \in Workers :
        /\ w1 # w2
        /\ wk[w1].pc = "convert"
        /\ wk[w2].pc = "commit"
        /\ txOwner = w2
        /\ wk[w2].cur # wk[w1].cur

\* The places of claim_pending inside its try block.
InClaimTry == {"select", "update", "commit"}

\* C30: a failed claim changes nothing.  When a statement of the claim
\* transaction raises, claim_pending returns None with the transaction gone
\* and every row of bases (status and conversion_started_at included) as
\* it was before the call; and a committed RUNNING status always comes from
\* a claim_pending that returned the job.
C30_FailedClaimChangesNothing ==
    [][/\ \A w \in Workers :
             (wk[w].pc \in InClaimTry /\ wk'[w].pc = "loop" /\ wk'[w].exc # "") =>
                 /\ wk'[w].claimed = 0
                 /\ tx'[w] = NoTx
                 /\ txOwner' # w
                 /\ bases' = bases
                 /\ hist' = hist
       /\ \A j \in Jobs :
             (bases'[j].status = "RUNNING" \/ bases'[j].started # 0) =>
                 hist'[j].claims >= 1]_vars

\* A claim_pending swallowed a store exception and returned None; the job
\* it was after stayed PENDING and another worker has since claimed it.
C30_Witness ==
    \E w1, w2 \in Workers :
        /\ w1 # w2
        /\ wk[w1].pc = "loop"
        /\ wk[w1].claimed = 0
        /\ wk[w1].exc = "store"
        /\ wk[w2].pc = "resolve"
        /\ wk[w2].claimed = 1
        /\ bases[1].status = "RUNNING"
        /\ bases[2].status = "PENDING"

====
